---- MODULE Spec2Model ----
(***************************************************************************)
(* A model of conversion.py: process_conversations and the helpers it      *)
(* calls.  Python dicts are records whose optional keys may be absent      *)
(* (dict.get is a test on DOMAIN), strings are sequences of one-character  *)
(* tokens, and every f.write call appends one tagged chunk to the file.    *)
(***************************************************************************)
EXTENDS Integers, Sequences, FiniteSets, TLC

\* ------------------------------------------------------------------ text

NL == "\n"
\* The backtick character.
BT == "bt"
SP == " "
US == "_"
BS == "\\"

\* str.isalnum on the characters of the model's alphabet.
IsAlnum(c) ==
    c \in {"a", "b", "c", "d", "e", "i", "l", "n", "t", "x", "A", "H", "U", "Z", "1", "2"}

\* The characters str.strip and str.rstrip remove.
IsSpace(c) == c \in {SP, NL}

Untitled == <<"U", "n", "t", "i", "t", "l", "e", "d">>
Ellipsis == <<".", ".", ".">>

IsPrefix(p, s) == Len(p) <= Len(s) /\ SubSeq(s, 1, Len(p)) = p

RECURSIVE RStrip(_)
RStrip(s) ==
    IF s # <<>> /\ IsSpace(s[Len(s)]) THEN RStrip(SubSeq(s, 1, Len(s) - 1)) ELSE s

RECURSIVE LStrip(_)
LStrip(s) == IF s # <<>> /\ IsSpace(s[1]) THEN LStrip(Tail(s)) ELSE s

Strip(s) == LStrip(RStrip(s))

\* s.split("\n", 1)[0]
FirstLine(s) ==
    IF \E i \in 1..Len(s) : s[i] = NL
    THEN SubSeq(s, 1, (CHOOSE i \in 1..Len(s) :
                          s[i] = NL /\ \A j \in 1..(i - 1) : s[j] # NL) - 1)
    ELSE s

\* len(content.splitlines()): a final line without its newline counts.
NumLines(s) ==
    Cardinality({i \in 1..Len(s) : s[i] = NL})
    + (IF s # <<>> /\ s[Len(s)] # NL THEN 1 ELSE 0)

\* '```' in content
HasTripleBacktick(s) ==
    \E i \in 1..(Len(s) - 2) : s[i] = BT /\ s[i + 1] = BT /\ s[i + 2] = BT

\* The lengths of the maximal runs of backticks: re.findall(r'`+', content).
BacktickRuns(s) ==
    {j - i + 1 : <<i, j>> \in
        {p \in (1..Len(s)) \X (1..Len(s)) :
            /\ p[1] <= p[2]
            /\ \A k \in p[1]..p[2] : s[k] = BT
            /\ (p[1] = 1 \/ s[p[1] - 1] # BT)
            /\ (p[2] = Len(s) \/ s[p[2] + 1] # BT)}}

Max(S) == CHOOSE x \in S : \A y \in S : y <= x

get_backtick_wrapper(content) ==
    LET backticks == BacktickRuns(content)
        max_len == IF backticks = {} THEN 2 ELSE Max(backticks)
    IN  max_len + 1

sanitize_filename(name) ==
    LET kept == SelectSeq(name, LAMBDA c : IsAlnum(c) \/ c \in {SP, US})
        stripped == RStrip(kept)
    IN  [i \in 1..Len(stripped) |-> IF stripped[i] = SP THEN US ELSE stripped[i]]

\* re.sub(BS open (.+?) BS close, repl \1 repl, content, flags=DOTALL):
\* leftmost match first, the shortest span of at least one character, and the
\* scan goes on after the match.
RECURSIVE SubDelims(_, _, _, _)
SubDelims(s, open, close, repl) ==
    LET Opens(i) == i + 1 <= Len(s) /\ s[i] = BS /\ s[i + 1] = open
        Closes(j) == j + 1 <= Len(s) /\ s[j] = BS /\ s[j + 1] = close
        Matches(i) == Opens(i) /\ \E j \in (i + 3)..Len(s) : Closes(j)
    IN  IF \E i \in 1..Len(s) : Matches(i)
        THEN LET i == CHOOSE i \in 1..Len(s) :
                        Matches(i) /\ \A h \in 1..(i - 1) : ~Matches(h)
                 j == CHOOSE j \in (i + 3)..Len(s) :
                        Closes(j) /\ \A h \in (i + 3)..(j - 1) : ~Closes(h)
             IN  SubSeq(s, 1, i - 1) \o repl \o SubSeq(s, i + 2, j - 1) \o repl
                     \o SubDelims(SubSeq(s, j + 2, Len(s)), open, close, repl)
        ELSE s

convert_latex(content) ==
    SubDelims(SubDelims(content, "(", ")", <<"$">>), "[", "]", <<"$", "$">>)

\* ------------------------------------------------------------ dict access

Has(d, k) == k \in DOMAIN d

\* datetime.fromtimestamp(t).strftime("%Y-%m-%d"): the day t falls on.
DateOf(t) == t \div (24 * 60 * 60)

\* m.get("create_time") is truthy: present and not zero.
HasTime(m) == Has(m, "create_time") /\ m.create_time # 0

\* ------------------------------------------------------- message content

\* get_message_content: the parts of a message, strings wrapped as text
\* parts and dicts kept; ok is FALSE where the code raises ValueError.
\* A raw string part is [str |-> s]; every other part is a dict.
get_message_content(message) ==
    LET content == IF Has(message, "content") THEN message.content ELSE [none |-> TRUE]
    IN  IF Has(content, "parts")
        THEN [ok |-> TRUE,
              parts |-> [i \in 1..Len(content.parts) |->
                            IF Has(content.parts[i], "str")
                            THEN [text |-> content.parts[i].str]
                            ELSE content.parts[i]]]
        ELSE IF Has(content, "text")
        THEN [ok |-> TRUE, parts |-> <<[text |-> content.text]>>]
        ELSE IF Has(content, "result")
        THEN [ok |-> TRUE, parts |-> <<[text |-> content.result]>>]
        ELSE [ok |-> FALSE, parts |-> <<>>]

\* infer_title: ok is FALSE where get_message_content raises.
infer_title(title, first_message) ==
    IF title # <<>>
    THEN [ok |-> TRUE, title |-> title]
    ELSE LET got == get_message_content(first_message)
             texts == SelectSeq(got.parts, LAMBDA part : Has(part, "text"))
         IN  IF ~got.ok THEN [ok |-> FALSE, title |-> <<>>]
             ELSE IF texts # <<>>
             THEN [ok |-> TRUE, title |-> FirstLine(Strip(texts[1].text)) \o Ellipsis]
             ELSE [ok |-> TRUE, title |-> Untitled]

\* ------------------------------------------------------------- ordering

\* The sort key of line 83, m.get("create_time") or float('-inf'): a missing,
\* None or zero create_time gives minus infinity.
SortKey(m) ==
    IF HasTime(m) THEN [inf |-> FALSE, v |-> m.create_time] ELSE [inf |-> TRUE, v |-> 0]

KeyLess(a, b) == (a.inf /\ ~b.inf) \/ (~a.inf /\ ~b.inf /\ a.v < b.v)

\* list.sort is stable: an element goes after every element whose key is not
\* greater than its own.
RECURSIVE SortMessages(_)
SortMessages(ms) ==
    IF ms = <<>> THEN <<>>
    ELSE LET front == SortMessages(SubSeq(ms, 1, Len(ms) - 1))
             m == ms[Len(ms)]
             k == Cardinality({i \in 1..Len(front) : ~KeyLess(SortKey(m), SortKey(front[i]))})
         IN  SubSeq(front, 1, k) \o <<m>> \o SubSeq(front, k + 1, Len(front))

\* Lines 77-83: the dict-typed messages of the mapping, in iteration order,
\* then sorted.
ExtractMessages(entry) ==
    LET mapping == IF Has(entry, "mapping") THEN entry.mapping ELSE <<>>
        items == SelectSeq(mapping, LAMBDA item : Has(item, "message"))
    IN  SortMessages([i \in 1..Len(items) |-> items[i].message])

\* next((m for m in messages if m.get("create_time")), None) as a sequence of
\* at most one message.
FirstTimestamped(messages) ==
    LET timed == SelectSeq(messages, LAMBDA m : HasTime(m))
    IN  IF timed = <<>> THEN <<>> ELSE <<timed[1]>>

EntryTitle(entry) == IF Has(entry, "title") THEN entry.title ELSE <<>>

\* Lines 90-99: the file name without ".md", as the pair of the optional date
\* prefix and the sanitized title.  The sanitized title holds no "-", so two
\* names are the same string exactly when the pairs are equal.
FileName(cfg, inferred_title, messages) ==
    LET first_timestamped == FirstTimestamped(messages)
    IN  IF cfg.prefix_date_in_filename /\ first_timestamped # <<>>
        THEN <<<<DateOf(first_timestamped[1].create_time)>>, sanitize_filename(inferred_title)>>
        ELSE <<<<>>, sanitize_filename(inferred_title)>>

\* Lines 106-112: the front matter written when the file is opened.
FrontMatter(cfg, inferred_title, messages) ==
    LET first_timestamped == FirstTimestamped(messages)
    IN  IF cfg.obsidian_front_matter
        THEN <<<<"front_open">>, <<"front_title", inferred_title>>>>
             \o (IF first_timestamped # <<>>
                 THEN <<<<"front_date", DateOf(first_timestamped[1].create_time)>>>>
                 ELSE <<>>)
             \o <<<<"front_close">>>>
        ELSE <<>>

\* --------------------------------------------------------------- images

\* [a-f0-9] on the characters of the model's alphabet.
IsHex(c) == c \in {"a", "b", "c", "d", "e", "1", "2"}

\* re.search(scheme (stem class+), asset_pointer) on a pointer given as its
\* tokens: the leftmost match, its group taken greedily.  The class is
\* [a-f0-9] where hex is set and [a-zA-Z0-9] otherwise.
SearchPointer(ptr, scheme, stem, hex) ==
    LET Class(c) == IF hex THEN IsHex(c) ELSE IsAlnum(c)
        At(i) == i + 2 <= Len(ptr) /\ ptr[i] = scheme /\ ptr[i + 1] = stem /\ Class(ptr[i + 2])
    IN  IF \E i \in 1..Len(ptr) : At(i)
        THEN LET i == CHOOSE i \in 1..Len(ptr) : At(i) /\ \A h \in 1..(i - 1) : ~At(h)
                 last == CHOOSE j \in (i + 2)..Len(ptr) :
                            /\ \A k \in (i + 2)..j : Class(ptr[k])
                            /\ (j = Len(ptr) \/ ~Class(ptr[j + 1]))
             IN  [found |-> TRUE, group |-> SubSeq(ptr, i + 1, last)]
        ELSE [found |-> FALSE, group |-> <<>>]

\* Lines 129-142: file_id starts as None (the empty sequence here); match is
\* assigned only under one of the two prefixes and otherwise keeps the value
\* it had, which is "unbound" until the first assignment of the call.
ParsePointer(asset_pointer, match) ==
    IF asset_pointer # <<>> /\ asset_pointer[1] = "file-service://"
    THEN LET m == SearchPointer(asset_pointer, "file-service://", "file-", FALSE)
         IN  [match |-> IF m.found THEN "Match" ELSE "None", file_id |-> m.group]
    ELSE IF asset_pointer # <<>> /\ asset_pointer[1] = "sediment://"
    THEN LET m == SearchPointer(asset_pointer, "sediment://", "file_", TRUE)
         IN  [match |-> IF m.found THEN "Match" ELSE "None", file_id |-> m.group]
    ELSE [match |-> match, file_id |-> <<>>]

\* Lines 145-149: the folder searched.
IsDalleTool(message) ==
    /\ Has(message, "author")
    /\ Has(message.author, "role") /\ message.author.role = "tool"
    /\ Has(message.author, "name") /\ message.author.name = "dalle.text2im"

\* os.listdir(input_folder): ok is FALSE where it raises FileNotFoundError.
ListDir(dirs, message) ==
    IF IsDalleTool(message)
    THEN [ok |-> dirs.dalle_exists, names |-> dirs.dalle]
    ELSE [ok |-> TRUE, names |-> dirs.input]

\* Line 151 for a file_id that is not None: the names starting with it.
ImageFiles(dirs, message, file_id) ==
    {f \in ListDir(dirs, message).names : IsPrefix(file_id, f)}

\* The values image_files[0] can take for this part: os.listdir gives the
\* names in an arbitrary order.  The empty name stands for no file.
PartFileId(part) ==
    ParsePointer(IF Has(part, "asset_pointer") THEN part.asset_pointer ELSE <<>>, "None").file_id

Picks(dirs, message, part) ==
    IF PartFileId(part) # <<>> /\ ImageFiles(dirs, message, PartFileId(part)) # {}
    THEN ImageFiles(dirs, message, PartFileId(part))
    ELSE {<<>>}

\* os.path.splitext(name)[1]
Ext(name) == IF name[Len(name)] \in {".png", ".webp"} THEN name[Len(name)] ELSE ""

DallePrompt(part) ==
    IF Has(part, "metadata") /\ Has(part.metadata, "dalle") /\ Has(part.metadata.dalle, "prompt")
    THEN part.metadata.dalle.prompt
    ELSE ""

IsImagePart(part) == Has(part, "content_type") /\ part.content_type = "image_asset_pointer"

Raise(st, error) == [st EXCEPT !.raised = error]

\* Line 176 left out: the counter keeps its value.
NextImageCounterKept(image_counter) == image_counter

\* Line 176.
NextImageCounter(image_counter) == image_counter + 1

\* Lines 153-176: the file was found.
ImageStateCopied(st, filename, part, pick) ==
    LET new_image_filename == <<filename, st.image_counter, Ext(pick)>>
        copied == [st EXCEPT !.copies = Append(@, <<new_image_filename, pick>>)]
        dalle_prompt == DallePrompt(part)
    IN  IF dalle_prompt # "" /\ st.author = "unbound"
        THEN Raise(copied, "UnboundLocalError")
        ELSE [copied EXCEPT
                !.out = @ \o (IF dalle_prompt # ""
                              THEN <<<<"caption", st.author, dalle_prompt>>>>
                              ELSE <<>>)
                        \o <<<<"img", new_image_filename>>>>,
                !.image_counter = NextImageCounter(@)]

\* Lines 177-178: only a message is printed.
ImageStateNotFound(st) == st

\* Lines 128-178: one image part, on the locals st of process_conversations.
ImagePartStep(st, dirs, filename, message, part, pick) ==
    LET parsed == ParsePointer(IF Has(part, "asset_pointer") THEN part.asset_pointer ELSE <<>>,
                               st.match)
        s1 == [st EXCEPT !.match = parsed.match]
        listed == ListDir(dirs, message)
    IN  IF s1.match = "unbound" THEN Raise(s1, "UnboundLocalError")
        ELSE IF s1.match = "None" THEN s1
        ELSE IF ~listed.ok THEN Raise(s1, "FileNotFoundError")
        ELSE IF parsed.file_id = <<>>
        THEN IF listed.names # {} THEN Raise(s1, "TypeError") ELSE ImageStateNotFound(s1)
        ELSE IF ImageFiles(dirs, message, parsed.file_id) # {}
        THEN ImageStateCopied(s1, filename, part, pick)
        ELSE ImageStateNotFound(s1)

\* Lines 182-183.
TextPartStep(st, part) ==
    [st EXCEPT !.content = @ \o (IF Has(part, "text") THEN part.text ELSE <<>>) \o <<NL>>]

\* Lines 126-183: one part.  A run that has raised does nothing more.
PartStep(st, dirs, filename, message, part, pick) ==
    IF st.raised # "" THEN st
    ELSE IF IsImagePart(part) THEN ImagePartStep(st, dirs, filename, message, part, pick)
    ELSE TextPartStep(st, part)

\* ------------------------------------------------------------- messages

\* message.get("author", {}).get("role", "unknown")
RoleOf(message) ==
    IF Has(message, "author") /\ Has(message.author, "role")
    THEN message.author.role
    ELSE "unknown"

\* Line 189.
AuthorOf(cfg, role) == IF role = "user" THEN cfg.user_name ELSE cfg.LLM_name

\* config.get("long_message_line_threshold", 5)
Threshold(cfg) ==
    IF Has(cfg, "long_message_line_threshold") THEN cfg.long_message_line_threshold ELSE 5

\* Lines 118-124: the start of a message.
BeginMessageStep(st, cfg, message) ==
    IF st.raised # "" THEN st
    ELSE IF ~get_message_content(message).ok THEN Raise(st, "ValueError")
    ELSE [st EXCEPT
            !.content = <<>>,
            !.out = @ \o (IF cfg.include_timestamps /\ HasTime(message)
                          THEN <<<<"timestamp", message.create_time>>>>
                          ELSE <<>>)]

\* Line 186.
SkipsMessage(st, cfg) == cfg.skip_empty_messages /\ st.content = <<>>

\* Lines 186-217: the end of a message, after its parts.
EndMessageStep(st, cfg, message) ==
    IF st.raised # "" \/ SkipsMessage(st, cfg) THEN st
    ELSE LET role == RoleOf(message)
             author == AuthorOf(cfg, role)
             use_code_block == role = "user" \/ HasTripleBacktick(st.content)
             content == IF cfg.convert_latex_syntax THEN convert_latex(st.content)
                        ELSE st.content
             num_lines == NumLines(content)
             collapse == cfg.collapse_long_messages /\ num_lines > Threshold(cfg)
             open_attr == IF cfg.collapse_open_by_default THEN " open" ELSE ""
         IN  [st EXCEPT
                !.author = author,
                !.content = content,
                !.out = @
                    \o (IF collapse
                        THEN <<<<"details_open", author, open_attr, num_lines>>>>
                        ELSE <<>>)
                    \o (IF use_code_block
                        THEN <<<<"fenced", get_backtick_wrapper(content), content>>>>
                        ELSE <<<<"plain", content>>>>)
                    \o (IF collapse THEN <<<<"details_close">>>> ELSE <<>>)
                    \o <<<<"separator">>>>
                    \o (IF collapse THEN <<<<"blank">>>> ELSE <<>>)]

\* ---------------------------------------------------------------- state

VARIABLES
    data,            \* the archive: the list process_conversations iterates
    config,          \* the configuration object
    dirs,            \* the input directory and its dalle-generations folder
    pc,              \* "entry", "message", "part", "done" or "raised"
    idx,             \* the position of the for loop of line 71
    messages,        \* the sorted messages of the current conversation
    inferred_title,
    filename,
    mi,              \* the position of the for loop of line 117
    pi,              \* the position of the for loop of line 126
    cur,             \* the locals of the call and what the open file holds
    alone,           \* the same conversation converted by a call of its own
    files,           \* the Markdown files of the output directory
    images           \* the image files of the output directory

vars == <<data, config, dirs, pc, idx, messages, inferred_title, filename, mi, pi,
          cur, alone, files, images>>

\* --------------------------------------------------------------- inputs

\* The longest archive, the longest mapping, and the longest parts list of a
\* message of images and of a message of text.
MaxConvs == 2
MaxMsgs == 2
MaxParts == 3
MaxTextParts == 2

SeqsUpTo(S, n) == UNION {[1..k -> S] : k \in 0..n}

\* DEFAULT_CONFIG of gui.py, the keys conversion.py reads.
DEFAULT_CONFIG ==
    [user_name |-> "Me", LLM_name |-> "ChatGPT",
     include_timestamps |-> TRUE, prefix_date_in_filename |-> TRUE,
     convert_latex_syntax |-> TRUE, skip_empty_messages |-> TRUE,
     collapse_long_messages |-> TRUE, long_message_line_threshold |-> 5,
     collapse_open_by_default |-> FALSE, obsidian_front_matter |-> TRUE]

Hi == <<"H", "i">>

TextMessage(role, text) ==
    [author |-> [role |-> role], content |-> [parts |-> <<[str |-> text]>>]]

Timed(m, t) == [k \in DOMAIN m \cup {"create_time"} |-> IF k = "create_time" THEN t ELSE m[k]]

\* Mappings of text messages with every kind of create_time, and nodes that
\* hold no message.
OrderingNodes ==
    LET ms == {TextMessage("assistant", t) : t \in {<<"a">>, <<"b">>}}
    IN  {[message |-> m] : m \in ms}
        \cup {[message |-> Timed(m, t)] : m \in ms, t \in {-1, 0, 1}}
        \cup {[id |-> "root"]}

InitOrdering ==
    /\ data \in {<<[title |-> Hi, mapping |-> mapping]>> :
                    mapping \in SeqsUpTo(OrderingNodes, MaxMsgs)}
    /\ config \in {[DEFAULT_CONFIG EXCEPT !.include_timestamps = t,
                                          !.skip_empty_messages = FALSE,
                                          !.convert_latex_syntax = FALSE] : t \in BOOLEAN}
    /\ dirs = [input |-> {<<"conversations.json">>}, dalle |-> {}, dalle_exists |-> FALSE]

\* One message of text parts under every formatting option.
FormattingTexts ==
    {<<>>, <<"a">>, <<"a", BT, "b", BT>>, <<BT, BT>>, <<BT, BT, BT, "a", NL, BT, BT, BT>>,
     <<BS, "(", "a", BS, ")", NL, "b", NL, "c">>}

FormattingContents ==
    {[parts |-> ps] : ps \in SeqsUpTo({[str |-> t] : t \in FormattingTexts}, MaxTextParts)}
    \cup {[text |-> <<"a">>], [result |-> <<>>]}

FormattingMessages ==
    LET ms == {[author |-> [role |-> role], content |-> content] :
                  role \in {"user", "assistant"}, content \in FormattingContents}
    IN  ms \cup {Timed(m, 1) : m \in ms} \cup {[content |-> [parts |-> <<[str |-> <<"a">>]>>]]}

InitFormatting ==
    /\ data \in {<<[title |-> Hi, mapping |-> <<[message |-> m]>>]>> : m \in FormattingMessages}
    /\ config \in {[DEFAULT_CONFIG EXCEPT !.include_timestamps = t,
                                          !.skip_empty_messages = s,
                                          !.collapse_long_messages = c,
                                          !.convert_latex_syntax = l,
                                          !.collapse_open_by_default = l,
                                          !.long_message_line_threshold = 2] :
                      t \in BOOLEAN, s \in BOOLEAN, c \in BOOLEAN, l \in BOOLEAN}
    /\ dirs = [input |-> {<<"conversations.json">>}, dalle |-> {}, dalle_exists |-> FALSE]

\* Image parts: a pointer that resolves, with and without a prompt; one with
\* neither prefix; one whose id does not match; one whose file is absent.
ImagePointer(asset_pointer) ==
    [content_type |-> "image_asset_pointer", asset_pointer |-> asset_pointer]

Prompted(p, prompt) ==
    [k \in DOMAIN p \cup {"metadata"} |->
        IF k = "metadata" THEN [dalle |-> [prompt |-> prompt]] ELSE p[k]]

ResolvingPart == ImagePointer(<<"file-service://", "file-", "A", "1">>)
PromptedPart == Prompted(ImagePointer(<<"sediment://", "file_", "a", "Z">>), "a cat")
NoPrefixPart == Prompted(ImagePointer(<<"https://", "file-", "A", "1">>), "a cat")
BadIdPart == ImagePointer(<<"sediment://", "file_", "Z">>)
AbsentPart == ImagePointer(<<"file-service://", "file-", "H">>)

ImageParts == {ResolvingPart, PromptedPart, NoPrefixPart, BadIdPart, AbsentPart}

\* The export folder as main() finds it, without and with a
\* dalle-generations folder, which os.listdir names among its entries.
ExportDirs ==
    [input |-> {<<"conversations.json">>, <<"file-", "A", "1", ".png">>,
                <<"file-", "A", "1", "2", ".webp">>, <<"file_", "a", "-", "x", ".png">>},
     dalle |-> {}, dalle_exists |-> FALSE]

DalleDirs ==
    [input |-> {<<"conversations.json">>, <<"dalle-generations">>},
     dalle |-> {<<"file_", "a", ".webp">>}, dalle_exists |-> TRUE]

Authors == {[role |-> "user"], [role |-> "assistant"], [role |-> "tool", name |-> "dalle.text2im"]}

InitImages ==
    /\ data \in {<<[title |-> Hi,
                    mapping |-> <<[message |-> [author |-> a, create_time |-> 1,
                                                content |-> [parts |-> ps]]]>>]>> :
                    a \in Authors,
                    ps \in SeqsUpTo(ImageParts \cup {[str |-> <<"a">>]}, MaxParts)}
    /\ config \in {[DEFAULT_CONFIG EXCEPT !.skip_empty_messages = s] : s \in BOOLEAN}
    /\ dirs \in {ExportDirs, DalleDirs}

\* One conversation whose messages hold one part each, images among them.
ThreadNodes ==
    {[message |-> [author |-> a, create_time |-> 1, content |-> [parts |-> <<p>>]]] :
        a \in {[role |-> "user"], [role |-> "tool", name |-> "dalle.text2im"]},
        p \in {ResolvingPart, PromptedPart, NoPrefixPart, AbsentPart, [str |-> <<"a">>]}}

InitThread ==
    /\ data \in {<<[title |-> Hi, mapping |-> mapping]>> :
                    mapping \in SeqsUpTo(ThreadNodes, MaxMsgs)}
    /\ config = [DEFAULT_CONFIG EXCEPT !.skip_empty_messages = FALSE]
    /\ dirs \in {ExportDirs, DalleDirs}

\* Archives of several conversations of one message each, and of entries
\* that are skipped.
ArchiveEntries ==
    LET said == TextMessage("user", <<"H", "i", "?", NL, "a">>)
        Shows(a, ps) == [author |-> a, create_time |-> 24 * 60 * 60,
                         content |-> [parts |-> ps]]
    IN  {[nondict |-> "text"], [title |-> Hi], [title |-> Hi, mapping |-> <<[id |-> "root"]>>]}
        \cup {[mapping |-> <<[message |-> m]>>] : m \in {said, Timed(said, 1), [author |-> [role |-> "user"]]}}
        \cup {[title |-> t, mapping |-> <<[message |-> Timed(said, 1)]>>] :
                t \in {Hi, <<"H", "i", "?">>, <<"b">>}}
        \cup {[title |-> Hi, mapping |-> <<[message |-> [author |-> [role |-> "user"],
                                                        create_time |-> 1]]>>]}
        \cup {[title |-> <<"c">>, mapping |-> <<[message |-> Shows(a, <<p>>)]>>] :
                a \in {[role |-> "user"], [role |-> "tool", name |-> "dalle.text2im"]},
                p \in {PromptedPart, NoPrefixPart}}
        \cup {[title |-> <<"c">>,
               mapping |-> <<[message |-> Shows([role |-> "user"], <<BadIdPart>>)]>>],
              [title |-> <<"1">>,
               mapping |-> <<[message |-> Shows([role |-> "user"], <<ResolvingPart>>)]>>],
              [title |-> <<"2">>,
               mapping |-> <<[message |-> Shows([role |-> "user"],
                                 <<ResolvingPart, AbsentPart, ResolvingPart>>)]>>]}

InitArchive ==
    /\ data \in SeqsUpTo(ArchiveEntries, MaxConvs)
    /\ config \in {[DEFAULT_CONFIG EXCEPT !.prefix_date_in_filename = d,
                                          !.obsidian_front_matter = d] : d \in BOOLEAN}
    /\ dirs \in {ExportDirs, DalleDirs}

\* The locals of a call that has not assigned match or author yet; out and
\* copies are what was written to the open file and copied for it.
FreshLocals ==
    [match |-> "unbound", author |-> "unbound", image_counter |-> 1, content |-> <<>>,
     out |-> <<>>, copies |-> <<>>, raised |-> ""]

\* Lines 103 and 160: what the output directory holds once cur was written.
WriteThrough(st, name, old_files) ==
    [f \in DOMAIN old_files \cup {name} |-> IF f = name THEN st.out ELSE old_files[f]]

CopyThrough(st, old_images) ==
    LET names == {st.copies[k][1] : k \in 1..Len(st.copies)}
        Last(n) == CHOOSE k \in 1..Len(st.copies) :
                      st.copies[k][1] = n /\ \A h \in (k + 1)..Len(st.copies) : st.copies[h][1] # n
    IN  [n \in DOMAIN old_images \cup names |->
            IF n \in names THEN st.copies[Last(n)][2] ELSE old_images[n]]

entry == data[idx]
message == messages[mi]
content_parts == get_message_content(message).parts
part == content_parts[pi]

Init ==
    /\ \/ InitOrdering
       \/ InitFormatting
       \/ InitImages
       \/ InitThread
       \/ InitArchive
    /\ pc = "entry"
    /\ idx = 1
    /\ messages = <<>>
    /\ inferred_title = <<>>
    /\ filename = <<<<>>, <<>>>>
    /\ mi = 1
    /\ pi = 1
    /\ cur = FreshLocals
    /\ alone = FreshLocals
    /\ files = <<>>
    /\ images = <<>>

\* Lines 72-74.
SkipNotDict ==
    /\ pc = "entry" /\ idx <= Len(data)
    /\ Has(entry, "nondict")
    /\ idx' = idx + 1
    /\ UNCHANGED <<data, config, dirs, pc, messages, inferred_title, filename, mi, pi,
                   cur, alone, files, images>>

\* Lines 77-87.
SkipNoMessages ==
    /\ pc = "entry" /\ idx <= Len(data)
    /\ ~Has(entry, "nondict")
    /\ ExtractMessages(entry) = <<>>
    /\ idx' = idx + 1
    /\ messages' = <<>>
    /\ UNCHANGED <<data, config, dirs, pc, inferred_title, filename, mi, pi,
                   cur, alone, files, images>>

\* Lines 77-89: infer_title raises out of process_conversations.
InferTitleRaises ==
    /\ pc = "entry" /\ idx <= Len(data)
    /\ ~Has(entry, "nondict")
    /\ ExtractMessages(entry) # <<>>
    /\ ~infer_title(EntryTitle(entry), ExtractMessages(entry)[1]).ok
    /\ messages' = ExtractMessages(entry)
    /\ cur' = Raise(cur, "ValueError")
    /\ alone' = Raise(FreshLocals, "ValueError")
    /\ pc' = "raised"
    /\ UNCHANGED <<data, config, dirs, idx, inferred_title, filename, mi, pi, files, images>>

\* Lines 77-115: the file is opened, truncated, and the front matter written.
OpenFile ==
    /\ pc = "entry" /\ idx <= Len(data)
    /\ ~Has(entry, "nondict")
    /\ ExtractMessages(entry) # <<>>
    /\ infer_title(EntryTitle(entry), ExtractMessages(entry)[1]).ok
    /\ messages' = ExtractMessages(entry)
    /\ inferred_title' = infer_title(EntryTitle(entry), messages'[1]).title
    /\ filename' = FileName(config, inferred_title', messages')
    /\ cur' = [cur EXCEPT !.image_counter = 1, !.copies = <<>>,
                          !.out = FrontMatter(config, inferred_title', messages')]
    /\ alone' = [FreshLocals EXCEPT !.out = FrontMatter(config, inferred_title', messages')]
    /\ files' = WriteThrough(cur', filename', files)
    /\ mi' = 1
    /\ pc' = "message"
    /\ UNCHANGED <<data, config, dirs, idx, pi, images>>

\* Lines 117-124.
BeginMessage ==
    /\ pc = "message" /\ mi <= Len(messages)
    /\ get_message_content(message).ok
    /\ cur' = BeginMessageStep(cur, config, message)
    /\ alone' = BeginMessageStep(alone, config, message)
    /\ files' = WriteThrough(cur', filename, files)
    /\ pi' = 1
    /\ pc' = "part"
    /\ UNCHANGED <<data, config, dirs, idx, messages, inferred_title, filename, mi, images>>

\* Line 119: get_message_content raises out of process_conversations.
MessageRaises ==
    /\ pc = "message" /\ mi <= Len(messages)
    /\ ~get_message_content(message).ok
    /\ cur' = BeginMessageStep(cur, config, message)
    /\ alone' = BeginMessageStep(alone, config, message)
    /\ pc' = "raised"
    /\ UNCHANGED <<data, config, dirs, idx, messages, inferred_title, filename, mi, pi,
                   files, images>>

\* Lines 181-183.
TextPart ==
    /\ pc = "part" /\ pi <= Len(content_parts)
    /\ ~IsImagePart(part)
    /\ cur' = PartStep(cur, dirs, filename, message, part, <<>>)
    /\ alone' = PartStep(alone, dirs, filename, message, part, <<>>)
    /\ pi' = pi + 1
    /\ UNCHANGED <<data, config, dirs, pc, idx, messages, inferred_title, filename, mi,
                   files, images>>

\* Lines 128-178, the part goes by without an exception: the image is copied
\* and referenced, or it is skipped.
ImagePart ==
    /\ pc = "part" /\ pi <= Len(content_parts)
    /\ IsImagePart(part)
    /\ \E pick \in Picks(dirs, message, part) :
          /\ cur' = PartStep(cur, dirs, filename, message, part, pick)
          /\ alone' = PartStep(alone, dirs, filename, message, part, pick)
    /\ cur'.raised = ""
    /\ files' = WriteThrough(cur', filename, files)
    /\ images' = CopyThrough(cur', images)
    /\ pi' = pi + 1
    /\ UNCHANGED <<data, config, dirs, pc, idx, messages, inferred_title, filename, mi>>

\* Lines 128-178, an exception leaves process_conversations: match or author
\* is read before its assignment, os.listdir finds no folder, or startswith
\* is given None.
ImagePartRaises ==
    /\ pc = "part" /\ pi <= Len(content_parts)
    /\ IsImagePart(part)
    /\ \E pick \in Picks(dirs, message, part) :
          /\ cur' = PartStep(cur, dirs, filename, message, part, pick)
          /\ alone' = PartStep(alone, dirs, filename, message, part, pick)
    /\ cur'.raised # ""
    /\ images' = CopyThrough(cur', images)
    /\ pc' = "raised"
    /\ UNCHANGED <<data, config, dirs, idx, messages, inferred_title, filename, mi, pi, files>>

\* Lines 186-187: continue.
SkipEmptyMessage ==
    /\ pc = "part" /\ pi > Len(content_parts)
    /\ SkipsMessage(cur, config)
    /\ cur' = EndMessageStep(cur, config, message)
    /\ alone' = EndMessageStep(alone, config, message)
    /\ mi' = mi + 1
    /\ pc' = "message"
    /\ UNCHANGED <<data, config, dirs, idx, messages, inferred_title, filename, pi,
                   files, images>>

\* Lines 189-217.
WriteMessage ==
    /\ pc = "part" /\ pi > Len(content_parts)
    /\ ~SkipsMessage(cur, config)
    /\ cur' = EndMessageStep(cur, config, message)
    /\ alone' = EndMessageStep(alone, config, message)
    /\ files' = WriteThrough(cur', filename, files)
    /\ mi' = mi + 1
    /\ pc' = "message"
    /\ UNCHANGED <<data, config, dirs, idx, messages, inferred_title, filename, pi, images>>

\* The for loop of line 117 ends: the with block of line 103 closes the
\* file, no file is open, and the next entry is taken.
EndConversation ==
    /\ pc = "message" /\ mi > Len(messages)
    /\ idx' = idx + 1
    /\ pc' = "entry"
    /\ cur' = [cur EXCEPT !.out = <<>>, !.copies = <<>>]
    /\ alone' = [alone EXCEPT !.out = <<>>, !.copies = <<>>]
    /\ UNCHANGED <<data, config, dirs, messages, inferred_title, filename, mi, pi,
                   files, images>>

\* The for loop of line 71 ends: process_conversations returns.
Return ==
    /\ pc = "entry" /\ idx > Len(data)
    /\ pc' = "done"
    /\ UNCHANGED <<data, config, dirs, idx, messages, inferred_title, filename, mi, pi,
                   cur, alone, files, images>>

Next ==
    \/ SkipNotDict
    \/ SkipNoMessages
    \/ InferTitleRaises
    \/ OpenFile
    \/ BeginMessage
    \/ MessageRaises
    \/ TextPart
    \/ ImagePart
    \/ ImagePartRaises
    \/ SkipEmptyMessage
    \/ WriteMessage
    \/ EndConversation
    \/ Return
Spec == Init /\ [][Next]_vars

\* --------------------------------------------------------------- claims

\* A conversation entry with at least one extractable message.
Convertible(e) ==
    /\ ~Has(e, "nondict")
    /\ Has(e, "mapping")
    /\ \E k \in 1..Len(e.mapping) : Has(e.mapping[k], "message")

\* The file name the entry is to get: sanitize_filename(inferred title),
\* with the date in front when it is configured and a message has a time.
NameOf(e) ==
    FileName(config, infer_title(EntryTitle(e), ExtractMessages(e)[1]).title,
             ExtractMessages(e))

\* The body chunks of a file, in the order written.
Bodies(out) == SelectSeq(out, LAMBDA chunk : chunk[1] \in {"plain", "fenced"})

\* The text a message contributes: its text parts, a newline after each.
RECURSIVE JoinText(_)
JoinText(parts) ==
    IF parts = <<>> THEN <<>>
    ELSE (IF IsImagePart(parts[1]) THEN <<>>
          ELSE (IF Has(parts[1], "text") THEN parts[1].text ELSE <<>>) \o <<NL>>)
         \o JoinText(Tail(parts))

TextOf(m) ==
    LET joined == JoinText(get_message_content(m).parts)
    IN  IF config.convert_latex_syntax THEN convert_latex(joined) ELSE joined

\* The order claimed: ascending create_time, zero and negative values as the
\* numbers they are, a message without create_time before every other, and
\* the mapping's order between equal keys.
ClaimedBefore(a, b) ==
    \/ ~Has(a, "create_time") /\ Has(b, "create_time")
    \/ Has(a, "create_time") /\ Has(b, "create_time") /\ a.create_time < b.create_time

RECURSIVE ClaimedOrder(_)
ClaimedOrder(ms) ==
    IF ms = <<>> THEN <<>>
    ELSE LET front == ClaimedOrder(SubSeq(ms, 1, Len(ms) - 1))
             m == ms[Len(ms)]
             k == Cardinality({i \in 1..Len(front) : ~ClaimedBefore(m, front[i])})
         IN  SubSeq(front, 1, k) \o <<m>> \o SubSeq(front, k + 1, Len(front))

MappingMessages(e) ==
    LET items == SelectSeq(e.mapping, LAMBDA item : Has(item, "message"))
    IN  [k \in 1..Len(items) |-> items[k].message]

\* The for loop of line 117 has ended and the file is still the current one.
ConversationWritten == pc = "message" /\ mi > Len(messages)

\* C1: once process_conversations has returned, every conversation with an
\* extractable message has its file under the name derived from its title,
\* and there are as many files as there are such conversations.
C1_OneFilePerConversation ==
    pc = "done" =>
        LET convertible == {k \in 1..Len(data) : Convertible(data[k])}
        IN  /\ \A k \in convertible : NameOf(data[k]) \in DOMAIN files
            /\ Cardinality(DOMAIN files) = Cardinality(convertible)

\* C2: the bodies in the file of a conversation are those of its messages in
\* ascending order of create_time, messages without one first, equal keys
\* in the order of the mapping.
C2_AscendingCreateTime ==
    (ConversationWritten /\ ~config.skip_empty_messages) =>
        LET claimed == ClaimedOrder(MappingMessages(entry))
        IN  /\ Len(Bodies(cur.out)) = Len(claimed)
            /\ \A k \in 1..Len(claimed) : Bodies(cur.out)[k][Len(Bodies(cur.out)[k])] = TextOf(claimed[k])

\* C3: every message body written is labelled with the author of its
\* message: the chunk before it names user_name for the role user and
\* LLM_name for every other role.
C3_AuthorLabeled ==
    ConversationWritten =>
        LET written == SelectSeq(messages, LAMBDA m :
                           ~(config.skip_empty_messages /\ JoinText(get_message_content(m).parts) = <<>>))
        IN  \A k \in 1..Len(cur.out) :
                cur.out[k][1] \in {"plain", "fenced"} =>
                    /\ k > 1
                    /\ cur.out[k - 1][1] = "details_open"
                    /\ cur.out[k - 1][2] =
                         AuthorOf(config, RoleOf(written[Len(Bodies(SubSeq(cur.out, 1, k)))]))

\* C4: when get_message_content raises on a message of a conversation, every
\* convertible conversation after it in the archive, its title given or
\* inferable, is still processed and has its file when the run ends.
C4_LaterConversationsProcessed ==
    (pc = "raised" /\ cur.raised = "ValueError") =>
        \A k \in (idx + 1)..Len(data) :
            (/\ Convertible(data[k])
             /\ infer_title(EntryTitle(data[k]), ExtractMessages(data[k])[1]).ok)
            => NameOf(data[k]) \in DOMAIN files

\* The image part cannot be resolved: no id is parsed from its pointer, the
\* folder searched does not exist, or no file there starts with the id.
Unresolvable(m, p) ==
    \/ PartFileId(p) = <<>>
    \/ ~ListDir(dirs, m).ok
    \/ ImageFiles(dirs, m, PartFileId(p)) = {}

\* C5: an image part that cannot be resolved raises no exception out of
\* process_conversations.
C5_ImageFailureNotFatal ==
    ~(/\ pc = "raised"
      /\ cur.raised \in {"UnboundLocalError", "TypeError", "FileNotFoundError"}
      /\ Unresolvable(message, part))

\* The longest run of backticks in a text, 0 when it holds none.
LongestRun(text) == IF BacktickRuns(text) = {} THEN 0 ELSE Max(BacktickRuns(text))

\* C6: every fence written has width max(3, n + 1), n the longest run of
\* backticks in the content fenced.
C6_FenceWidth ==
    \A k \in 1..Len(cur.out) :
        cur.out[k][1] = "fenced" =>
            cur.out[k][2] = Max({3, LongestRun(cur.out[k][3]) + 1})

\* A message without textual content: it has no text part, or every text
\* part of it is the empty string.
NoTextualContent(m) ==
    /\ get_message_content(m).ok
    /\ \A k \in 1..Len(get_message_content(m).parts) :
          LET p == get_message_content(m).parts[k]
          IN  IsImagePart(p) \/ ~Has(p, "text") \/ p.text = <<>>

\* C7: with skip_empty_messages set, the steps of a message without textual
\* content add nothing to the file but the captions and references of its
\* images.
C7_EmptyMessageSkipped ==
    [][(/\ config.skip_empty_messages
        /\ pc \in {"message", "part"}
        /\ mi <= Len(messages)
        /\ NoTextualContent(message))
       => /\ Len(cur'.out) >= Len(cur.out)
          /\ SubSeq(cur'.out, 1, Len(cur.out)) = cur.out
          /\ \A k \in (Len(cur.out) + 1)..Len(cur'.out) :
                cur'.out[k][1] \in {"caption", "img"}]_vars

\* C8: in a conversation the k-th image copied is named with the number k:
\* the counter starts at 1, grows by one with every image referenced and
\* with nothing else, and the output directory holds the numbers of a file
\* name without a gap.
C8_ImageCounter ==
    /\ \A k \in 1..Len(cur.copies) :
          cur.copies[k][1] = <<filename, k, Ext(cur.copies[k][2])>>
    /\ pc \in {"message", "part"} =>
          cur.image_counter = Len(cur.copies) + 1
    /\ \A n \in DOMAIN images :
          \A k \in 1..n[2] : \E o \in DOMAIN images : o[1] = n[1] /\ o[2] = k

\* C8 happens: the second conversation of an archive has copied its second
\* image after an image part that was skipped, and the directory still
\* holds the image of the first conversation.
C8_Witness ==
    /\ idx = 2
    /\ pc = "part"
    /\ Len(cur.copies) = 2
    /\ cur.image_counter = 3
    /\ \E k \in 1..(pi - 1) :
          IsImagePart(content_parts[k]) /\ Unresolvable(message, content_parts[k])
    /\ \E n \in DOMAIN images : n[1] # filename

\* C9: what the conversion of a conversation writes, copies and raises after
\* the conversations before it is what a call on it alone writes, copies and
\* raises, where no conversation before it has its file name.
C9_IndependentOfEarlier ==
    (/\ pc \in {"message", "part", "raised"}
     /\ \A k \in 1..(idx - 1) :
           (Convertible(data[k]) /\ Convertible(entry)) => NameOf(data[k]) # NameOf(entry))
    =>  /\ cur.out = alone.out
        /\ cur.copies = alone.copies
        /\ cur.raised = alone.raised

\* An image part that resolves and carries a prompt.
PromptedResolved ==
    /\ pc = "part" /\ pi <= Len(content_parts)
    /\ IsImagePart(part)
    /\ DallePrompt(part) # ""
    /\ ~Unresolvable(message, part)

\* C10: the step of a resolved image part with a prompt raises nothing and
\* writes the caption, attributed to the author of the message holding the
\* part, right before the image reference.
C10_CaptionAuthor ==
    [][PromptedResolved
       => /\ cur'.raised = ""
          /\ Len(cur'.out) = Len(cur.out) + 2
          /\ cur'.out[Len(cur.out) + 1] =
                <<"caption", AuthorOf(config, RoleOf(message)), DallePrompt(part)>>
          /\ cur'.out[Len(cur.out) + 2][1] = "img"]_vars

====
